---- MODULE Spec2Model ----
(***************************************************************************)
(* Prerequisite validation of a transcript: the processing run of          *)
(* streamlit_app.main (history build, per-semester credit check,           *)
(* per-course validation, invalidation propagation) over the semester      *)
(* list the extractor returned, with the helpers of course_analyzer.py.    *)
(* Python indices are 0-based: semester index i is semesters[i + 1] here.  *)
(***************************************************************************)
EXTENDS Integers, Sequences, FiniteSets, TLC

\* ------------------------------------------------------------------ bounds
MaxSemesters == 3   \* semesters in a transcript
MaxCourses == 2     \* course records in one semester
MaxRecords == 3     \* course records in a whole transcript
MaxEdits == 1       \* grade corrections after a run
MaxLines == 5       \* lines of a transcript text
MaxRuns == 2        \* processing runs on one text
MaxReruns == 3      \* reruns of the script in a session, extractions in the editor

\* ------------------------------------------------------------------ inputs
\* Course codes of the transcripts: X, Y, Z are in the catalog, U is not.
Codes == {"X", "Y", "Z", "U"}

\* Grades drawn for the transcripts (a subset of valid_grades).
Grades == {"A", "F", "W"}

\* Credits printed beside each course on the transcript (1..6).
CourseCredits == [c \in Codes |-> CASE c = "X" -> 3 [] c = "Y" -> 4 [] OTHER -> 6]

\* The catalogs of the sidebar, by name: code -> declared prerequisites, in
\* their listed order.  In the second one Y and Z need nothing but each other.
available_course_data ==
    [name \in {"catalog_1", "catalog_2"} |->
        [c \in {"X", "Y", "Z"} |->
            IF name = "catalog_1"
            THEN CASE c = "X" -> << >>
                   [] c = "Y" -> <<"X">>
                   [] c = "Z" -> <<"X", "Y">>
            ELSE CASE c = "X" -> << >>
                   [] c = "Y" -> << >>
                   [] c = "Z" -> <<"Y">>]]

SemesterKinds == <<"First", "Second", "Summer">>

VARIABLES
    semesters,      \* the semester list returned by process_pdf
    history,        \* passed_courses_history: semester index -> set of codes
    all_results,    \* the validation results, in order of creation
    i,              \* index of the semester being validated (0-based)
    k,              \* index of the next course of semester i (0-based)
    pc,             \* position of the run
    edits,          \* number of grade corrections made after the run
    propagated,     \* propagation ran on the present semesters and results
    lines,          \* the lines of the transcript text
    semester_markers,   \* line numbers of the semester headers (0-based)
    marker_idx,     \* index of the header whose block is being read (0-based)
    line_num,       \* number of the line being read (0-based)
    current_semester,   \* the semester record under construction
    seen_codes,     \* codes recorded so far in the current block
    extracted,      \* the semester list extract_semesters is filling
    runs,           \* processing runs started on the text
    first_results,  \* the results of the first processing run
    session_state,  \* st.session_state of the web application
    pdf_file,       \* the name of the file in the uploader, or None
    student_info,   \* the student information returned by process_pdf
    validator,      \* the name of the catalog the validator was loaded with
    model,          \* the transcript model of the desktop editor
    append_mode,    \* the extracted semesters are appended to the model
    reruns          \* script reruns and editor extractions so far

\* The variables of the extractor and of the repeated run.
exvars == <<lines, semester_markers, marker_idx, line_num, current_semester,
            seen_codes, extracted, runs, first_results>>

\* The variables of the session and of the editor.
uivars == <<session_state, pdf_file, student_info, validator, model, append_mode,
            reruns>>

vars == <<semesters, history, all_results, i, k, pc, edits, propagated, exvars,
          uivars>>

\* The catalog the validator was loaded with.
CourseData == available_course_data[validator]

\* ----------------------------------------------------------------- helpers
Range(s) == {s[n] : n \in DOMAIN s}

RECURSIVE SumSeq(_)
SumSeq(s) == IF s = << >> THEN 0 ELSE Head(s) + SumSeq(Tail(s))

\* Variant of is_passing_grade: a satisfactory S passes as well.
is_passing_grade_WithS(grade) ==
    grade \in {"A", "B+", "B", "C+", "C", "D+", "D", "P", "S"}

\* Variant of is_passing_grade: every grade that counts for credit passes.
is_passing_grade_CountsF(grade) ==
    grade \notin {"W", "N", ""}

\* CourseClassificationHelper.is_passing_grade
is_passing_grade(grade) ==
    grade \in {"A", "B+", "B", "C+", "C", "D+", "D", "P"}

\* CourseAnalyzer.get_course_info: the catalog entry, or none.
InCatalog(code) == code \in DOMAIN CourseData

Prerequisites(code) == CourseData[code]

\* A reason string: its fixed text, the codes joined into it and the number
\* formatted into it (0 when the text has none).
Reason(text, codes, num) == [text |-> text, codes |-> codes, num |-> num]

\* Variant of check_prerequisite_satisfaction: an unknown course is rejected.
check_prerequisite_satisfaction_FailClosed(course_code, passed_courses) ==
    IF ~InCatalog(course_code)
    THEN [is_valid |-> FALSE, reason |-> Reason("Course not found in database", << >>, 0)]
    ELSE LET prerequisites == Prerequisites(course_code)
             missing_prerequisites ==
                 SelectSeq(prerequisites, LAMBDA prereq : prereq \notin passed_courses)
         IN  IF prerequisites = << >>
             THEN [is_valid |-> TRUE, reason |-> Reason("No prerequisites required", << >>, 0)]
             ELSE IF missing_prerequisites # << >>
             THEN [is_valid |-> FALSE,
                   reason |-> Reason("Missing prerequisites", missing_prerequisites, 0)]
             ELSE [is_valid |-> TRUE, reason |-> Reason("All prerequisites satisfied", << >>, 0)]

\* Variant of check_prerequisite_satisfaction: only the first declared
\* prerequisite is looked up.
check_prerequisite_satisfaction_FirstOnly(course_code, passed_courses) ==
    IF ~InCatalog(course_code)
    THEN [is_valid |-> TRUE, reason |-> Reason("Course not found in database", << >>, 0)]
    ELSE LET prerequisites == Prerequisites(course_code)
             missing_prerequisites ==
                 SelectSeq(SubSeq(prerequisites, 1, 1),
                           LAMBDA prereq : prereq \notin passed_courses)
         IN  IF prerequisites = << >>
             THEN [is_valid |-> TRUE, reason |-> Reason("No prerequisites required", << >>, 0)]
             ELSE IF missing_prerequisites # << >>
             THEN [is_valid |-> FALSE,
                   reason |-> Reason("Missing prerequisites", missing_prerequisites, 0)]
             ELSE [is_valid |-> TRUE, reason |-> Reason("All prerequisites satisfied", << >>, 0)]

\* Variant of check_prerequisite_satisfaction: the loop stops at the first
\* missing prerequisite, so the reason names only that one.
check_prerequisite_satisfaction_FirstMissing(course_code, passed_courses) ==
    IF ~InCatalog(course_code)
    THEN [is_valid |-> TRUE, reason |-> Reason("Course not found in database", << >>, 0)]
    ELSE LET prerequisites == Prerequisites(course_code)
             missing_prerequisites ==
                 SelectSeq(prerequisites, LAMBDA prereq : prereq \notin passed_courses)
         IN  IF prerequisites = << >>
             THEN [is_valid |-> TRUE, reason |-> Reason("No prerequisites required", << >>, 0)]
             ELSE IF missing_prerequisites # << >>
             THEN [is_valid |-> FALSE,
                   reason |-> Reason("Missing prerequisites",
                                     SubSeq(missing_prerequisites, 1, 1), 0)]
             ELSE [is_valid |-> TRUE, reason |-> Reason("All prerequisites satisfied", << >>, 0)]

\* CourseValidationHelper.check_prerequisite_satisfaction
check_prerequisite_satisfaction(course_code, passed_courses) ==
    IF ~InCatalog(course_code)
    THEN [is_valid |-> TRUE, reason |-> Reason("Course not found in database", << >>, 0)]
    ELSE LET prerequisites == Prerequisites(course_code)
             missing_prerequisites ==
                 SelectSeq(prerequisites, LAMBDA prereq : prereq \notin passed_courses)
         IN  IF prerequisites = << >>
             THEN [is_valid |-> TRUE, reason |-> Reason("No prerequisites required", << >>, 0)]
             ELSE IF missing_prerequisites # << >>
             THEN [is_valid |-> FALSE,
                   reason |-> Reason("Missing prerequisites", missing_prerequisites, 0)]
             ELSE [is_valid |-> TRUE, reason |-> Reason("All prerequisites satisfied", << >>, 0)]

\* The credit ceilings of validate_credit_load.
SummerMaxCredits == 9
RegularMaxCredits == 22

\* Variant of validate_credit_load: a load equal to the ceiling is refused.
validate_credit_load_AtCeiling(semester_credits, semester_type) ==
    LET max_credits == IF semester_type = "Summer" THEN SummerMaxCredits
                       ELSE RegularMaxCredits
    IN  IF semester_credits >= max_credits
        THEN [ok |-> FALSE, reason |-> Reason("Exceeds maximum credits", <<semester_type>>, max_credits)]
        ELSE [ok |-> TRUE, reason |-> Reason("Credit load valid", << >>, semester_credits)]

\* CourseValidationHelper.validate_credit_load
validate_credit_load(semester_credits, semester_type) ==
    LET max_credits == IF semester_type = "Summer" THEN SummerMaxCredits
                       ELSE RegularMaxCredits
    IN  IF semester_credits > max_credits
        THEN [ok |-> FALSE, reason |-> Reason("Exceeds maximum credits", <<semester_type>>, max_credits)]
        ELSE [ok |-> TRUE, reason |-> Reason("Credit load valid", << >>, semester_credits)]

\* ------------------------------------------------------------- the validator
\* Codes with a passing grade in one semester.
PassedIn(semester) ==
    {c.code : c \in {c \in Range(semester.courses) : is_passing_grade(c.grade)}}

\* The snapshots taken while replaying the semesters in order: before each
\* semester, the codes passed so far.
RECURSIVE HistoryFrom(_, _)
HistoryFrom(sems, passed) ==
    IF sems = << >> THEN << >>
    ELSE <<passed>> \o HistoryFrom(Tail(sems), passed \cup PassedIn(Head(sems)))

\* Variant of the replay: a code leaves the passed set when it is repeated
\* with a grade that does not pass.
RECURSIVE HistoryFromLastGrade(_, _)
HistoryFromLastGrade(sems, passed) ==
    IF sems = << >> THEN << >>
    ELSE <<passed>> \o
         HistoryFromLastGrade(
             Tail(sems),
             (passed \ {c.code : c \in Range(Head(sems).courses)}) \cup PassedIn(Head(sems)))

\* Variant of build_passed_courses_history: the history of last grades.
build_passed_courses_history_LastGrade(sems) ==
    LET snaps == HistoryFromLastGrade(sems, {})
    IN  [idx \in 0 .. (Len(sems) - 1) |-> snaps[idx + 1]]

\* validator.build_passed_courses_history
build_passed_courses_history(sems) ==
    LET snaps == HistoryFrom(sems, {})
    IN  [idx \in 0 .. (Len(sems) - 1) |-> snaps[idx + 1]]

\* validator.validate_course
validate_course(course, semester_index, all_semesters, passed_history, results_so_far) ==
    check_prerequisite_satisfaction(course.code, passed_history[semester_index])

\* validator.validate_credit_limit
validate_credit_limit(semester) ==
    validate_credit_load(semester.total_credits, semester.semester_type)

\* The failed set after the courses of one semester, in order: an F enters
\* the code, a passing grade removes it.
RECURSIVE FailedAfter(_, _)
FailedAfter(courses, failed) ==
    IF courses = << >> THEN failed
    ELSE LET c == Head(courses)
         IN  FailedAfter(Tail(courses),
                         IF c.grade = "F" THEN failed \cup {c.code}
                         ELSE IF is_passing_grade(c.grade) THEN failed \ {c.code}
                         ELSE failed)

\* Before each semester, the codes whose last F was not followed by a pass.
RECURSIVE FailedFrom(_, _)
FailedFrom(sems, failed) ==
    IF sems = << >> THEN << >>
    ELSE <<failed>> \o FailedFrom(Tail(sems), FailedAfter(Head(sems).courses, failed))

FailedBefore(sems, semester_index) == FailedFrom(sems, {})[semester_index + 1]

\* A result that belongs to a course record of the semester list.
IsCourseResult(sems, r) ==
    /\ r.semester_index < Len(sems)
    /\ \E c \in Range(sems[r.semester_index + 1].courses) : c.code = r.course_code

\* Variant of propagate_invalidation: only an F in the semester just before
\* the course's semester is looked at.
propagate_invalidation_PreviousOnly(sems, results) ==
    [n \in DOMAIN results |->
        LET r == results[n]
            failed_prereqs ==
                IF IsCourseResult(sems, r) /\ InCatalog(r.course_code) /\ r.semester_index > 0
                THEN SelectSeq(Prerequisites(r.course_code),
                               LAMBDA p : p \in FailedAfter(sems[r.semester_index].courses, {}))
                ELSE << >>
        IN  IF r.is_valid /\ failed_prereqs # << >>
            THEN [r EXCEPT !.is_valid = FALSE,
                           !.reason = Reason("Prerequisite failed", <<Head(failed_prereqs)>>, 0)]
            ELSE r]

\* Variant of propagate_invalidation: every course result in the catalog is
\* set again from the failed prerequisites, in both directions.
propagate_invalidation_Recheck(sems, results) ==
    [n \in DOMAIN results |->
        LET r == results[n]
            failed_prereqs ==
                IF IsCourseResult(sems, r) /\ InCatalog(r.course_code)
                THEN SelectSeq(Prerequisites(r.course_code),
                               LAMBDA p : p \in FailedBefore(sems, r.semester_index))
                ELSE << >>
        IN  IF failed_prereqs # << >>
            THEN [r EXCEPT !.is_valid = FALSE,
                           !.reason = Reason("Prerequisite failed", <<Head(failed_prereqs)>>, 0)]
            ELSE IF IsCourseResult(sems, r) /\ InCatalog(r.course_code)
            THEN [r EXCEPT !.is_valid = TRUE]
            ELSE r]

\* Variant of propagate_invalidation: the scan stops after its first flip.
propagate_invalidation_OneFlip(sems, results) ==
    LET Flippable(n) ==
            /\ results[n].is_valid
            /\ IsCourseResult(sems, results[n])
            /\ InCatalog(results[n].course_code)
            /\ \E p \in Range(Prerequisites(results[n].course_code)) :
                   p \in FailedBefore(sems, results[n].semester_index)
    IN  [n \in DOMAIN results |->
            LET r == results[n]
                failed_prereqs ==
                    SelectSeq(Prerequisites(r.course_code),
                              LAMBDA p : p \in FailedBefore(sems, r.semester_index))
            IN  IF Flippable(n) /\ ~\E m \in 1 .. (n - 1) : Flippable(m)
                THEN [r EXCEPT !.is_valid = FALSE,
                               !.reason = Reason("Prerequisite failed",
                                                 <<Head(failed_prereqs)>>, 0)]
                ELSE r]

\* Variant of propagate_invalidation: a prerequisite counts as failed when it
\* has an F in an earlier semester, passed afterwards or not.
propagate_invalidation_EverFailed(sems, results) ==
    [n \in DOMAIN results |->
        LET r == results[n]
            failed_prereqs ==
                IF IsCourseResult(sems, r) /\ InCatalog(r.course_code)
                THEN SelectSeq(Prerequisites(r.course_code),
                               LAMBDA p : \E a \in 1 .. r.semester_index :
                                   \E c \in Range(sems[a].courses) :
                                       c.code = p /\ c.grade = "F")
                ELSE << >>
        IN  IF r.is_valid /\ failed_prereqs # << >>
            THEN [r EXCEPT !.is_valid = FALSE,
                           !.reason = Reason("Prerequisite failed", <<Head(failed_prereqs)>>, 0)]
            ELSE r]

\* validator.propagate_invalidation
propagate_invalidation(sems, results) ==
    [n \in DOMAIN results |->
        LET r == results[n]
            failed_prereqs ==
                IF IsCourseResult(sems, r) /\ InCatalog(r.course_code)
                THEN SelectSeq(Prerequisites(r.course_code),
                               LAMBDA p : p \in FailedBefore(sems, r.semester_index))
                ELSE << >>
        IN  IF r.is_valid /\ failed_prereqs # << >>
            THEN [r EXCEPT !.is_valid = FALSE,
                           !.reason = Reason("Prerequisite failed", <<Head(failed_prereqs)>>, 0)]
            ELSE r]

\* ------------------------------------------------------- the extracted input
\* A course record as extract_semesters appends it.
CourseRecord(code, grade) ==
    [code |-> code, grade |-> grade, credits |-> CourseCredits[code]]

\* The course lists a semester block can yield: at least one record, no code
\* twice (seen_codes), at most MaxCourses records.
CourseLists ==
    UNION {{cs \in [1 .. n -> {CourseRecord(c, g) : c \in Codes, g \in Grades}] :
               \A a, b \in 1 .. n : a # b => cs[a].code # cs[b].code} :
           n \in 1 .. MaxCourses}

\* The semester record extract_semesters builds around a course list.
SemesterRecord(semester_type, courses) ==
    [semester_type |-> semester_type,
     courses |-> courses,
     total_credits |->
         SumSeq([n \in DOMAIN courses |->
                    IF courses[n].grade \notin {"W", "N", ""}
                    THEN courses[n].credits ELSE 0])]

\* The lists of n course lists with at most budget records in all.
RECURSIVE CourseListSeqs(_, _)
CourseListSeqs(n, budget) ==
    IF n = 0 THEN {<< >>}
    ELSE UNION {{<<cs>> \o rest : rest \in CourseListSeqs(n - 1, budget - Len(cs))} :
                cs \in {cs \in CourseLists : Len(cs) + (n - 1) <= budget}}

\* Consecutive registration periods starting at period first.
Transcript(first, lists) ==
    [n \in DOMAIN lists |->
        SemesterRecord(SemesterKinds[((first + n - 1) % 3) + 1], lists[n])]

Transcripts ==
    {Transcript(first, lists) :
        first \in 0 .. 2,
        lists \in UNION {CourseListSeqs(n, MaxRecords) : n \in 1 .. MaxSemesters}}

\* ------------------------------------------- inputs around the vocabulary
\* The grades extract_semesters lets through (valid_grades).
ValidGrades ==
    {"A", "B+", "B", "C+", "C", "D+", "D", "F", "W", "N", "P", "I", "S", "U"}

\* The order in which the records of a heavily loaded semester are listed.
CodeOrder == <<"X", "Y", "Z", "U">>

\* A course record with the credits printed on its line.
CreditedRecord(code, grade, credits) ==
    [code |-> code, grade |-> grade, credits |-> credits]

\* A one-semester transcript that lists the first codes of CodeOrder with the
\* credits cr: with 3 to 6 credits a course, the load runs from one light
\* course to a full list of six-credit courses and passes both ceilings.
CreditTranscript(kind, cr) ==
    <<SemesterRecord(kind,
                     [n \in DOMAIN cr |-> CreditedRecord(CodeOrder[n], "A", cr[n])])>>

\* A transcript of one-course semesters, one for each record of cs.
GradeTranscript(cs) == Transcript(0, [n \in DOMAIN cs |-> <<cs[n]>>])

\* No semester record is under construction.
NoSemester ==
    [semester_type |-> "", year |-> 0, year_int |-> 0, courses |-> << >>,
     total_credits |-> 0, semester_order |-> 0]

\* The extractor has not been called: the run starts from a semester list.
ExtractorIdle ==
    /\ lines = << >>
    /\ semester_markers = << >>
    /\ marker_idx = 0
    /\ line_num = 0
    /\ current_semester = NoSemester
    /\ seen_codes = {}
    /\ extracted = << >>
    /\ runs = 1
    /\ first_results = << >>

\* No file name, no selection.
None == "None"

\* main: the session defaults, with the first catalog of the sidebar selected.
InitialSession ==
    [student_info |-> << >>,
     semesters |-> << >>,
     validation_results |-> << >>,
     selected_course_data |-> "catalog_1",
     processing_complete |-> FALSE,
     unidentified_count |-> 0,
     last_pdf_name |-> None]

\* The transcript model of the editor before anything was loaded.
EmptyModel ==
    [student_info |-> << >>, semesters |-> << >>, current_semester_index |-> 0,
     changed |-> FALSE]

\* No file was uploaded and the editor is empty.
UiIdle ==
    /\ session_state = InitialSession
    /\ pdf_file = None
    /\ student_info = << >>
    /\ validator = "catalog_1"
    /\ model = EmptyModel
    /\ append_mode = FALSE
    /\ reruns = 0

\* ------------------------------------------------------------------ the run
Init ==
    /\ semesters \in Transcripts
    /\ history = << >>
    /\ all_results = << >>
    /\ i = 0
    /\ k = 0
    /\ pc = "extracted"
    /\ edits = 0
    /\ propagated = FALSE
    /\ ExtractorIdle
    /\ UiIdle

\* main: the validator is loaded with the selected catalog;
\* validator.build_passed_courses_history(semesters); all_results = []
BuildHistory ==
    /\ pc = "extracted"
    /\ history' = build_passed_courses_history(semesters)
    /\ all_results' = << >>
    /\ i' = 0
    /\ k' = 0
    /\ pc' = "credit"
    /\ validator' = session_state.selected_course_data
    /\ UNCHANGED <<semesters, edits, propagated>>
    /\ UNCHANGED exvars
    /\ UNCHANGED <<session_state, pdf_file, student_info, model, append_mode, reruns>>

\* Variant of CheckCreditLimit: the result carries the check's verdict.
CheckCreditLimit_Strict ==
    /\ pc = "credit"
    /\ LET semester == semesters[i + 1]
           credit == validate_credit_limit(semester)
       IN  all_results' =
               IF ~credit.ok
               THEN Append(all_results,
                           [semester_index |-> i,
                            course_code |-> "CREDIT_LIMIT",
                            grade |-> "N/A",
                            is_valid |-> credit.ok,
                            reason |-> credit.reason,
                            type |-> "credit_limit"])
               ELSE all_results
    /\ k' = 0
    /\ pc' = "courses"
    /\ UNCHANGED <<semesters, history, i, edits, propagated>>
    /\ UNCHANGED exvars
    /\ UNCHANGED uivars

\* main: the credit-limit check that opens the loop body of semester i.
CheckCreditLimit ==
    /\ pc = "credit"
    /\ LET semester == semesters[i + 1]
           credit == validate_credit_limit(semester)
       IN  all_results' =
               IF ~credit.ok
               THEN Append(all_results,
                           [semester_index |-> i,
                            course_code |-> "CREDIT_LIMIT",
                            grade |-> "N/A",
                            is_valid |-> TRUE,
                            reason |-> credit.reason,
                            type |-> "credit_limit"])
               ELSE all_results
    /\ k' = 0
    /\ pc' = "courses"
    /\ UNCHANGED <<semesters, history, i, edits, propagated>>
    /\ UNCHANGED exvars
    /\ UNCHANGED uivars

\* Variant of ValidateCourse: the credit-limit result of a semester stands
\* for the semester, whose courses get no result of their own.
ValidateCourse_Substitutive ==
    /\ pc = "courses"
    /\ LET semester == semesters[i + 1]
           course == semester.courses[k + 1]
           v == validate_course(course, i, semesters, history, all_results)
           result == [semester_index |-> i,
                      course_code |-> course.code,
                      grade |-> course.grade,
                      is_valid |-> v.is_valid,
                      reason |-> v.reason,
                      type |-> "prerequisite"]
       IN  /\ all_results' =
                  IF \E n \in DOMAIN all_results :
                       /\ all_results[n].type = "credit_limit"
                       /\ all_results[n].semester_index = i
                  THEN all_results
                  ELSE Append(all_results, result)
           /\ IF k + 1 < Len(semester.courses)
              THEN /\ k' = k + 1
                   /\ UNCHANGED <<i, pc>>
              ELSE /\ k' = 0
                   /\ i' = i + 1
                   /\ pc' = IF i + 1 < Len(semesters) THEN "credit" ELSE "propagate"
    /\ UNCHANGED <<semesters, history, edits, propagated>>
    /\ UNCHANGED exvars
    /\ UNCHANGED uivars

\* Variant of ValidateCourse: the course is checked against the history of
\* the last semester of the transcript.
ValidateCourse_WholeTranscript ==
    /\ pc = "courses"
    /\ LET semester == semesters[i + 1]
           course == semester.courses[k + 1]
           v == validate_course(course, Len(semesters) - 1, semesters, history, all_results)
       IN  /\ all_results' =
                  Append(all_results,
                         [semester_index |-> i,
                          course_code |-> course.code,
                          grade |-> course.grade,
                          is_valid |-> v.is_valid,
                          reason |-> v.reason,
                          type |-> "prerequisite"])
           /\ IF k + 1 < Len(semester.courses)
              THEN /\ k' = k + 1
                   /\ UNCHANGED <<i, pc>>
              ELSE /\ k' = 0
                   /\ i' = i + 1
                   /\ pc' = IF i + 1 < Len(semesters) THEN "credit" ELSE "propagate"
    /\ UNCHANGED <<semesters, history, edits, propagated>>
    /\ UNCHANGED exvars
    /\ UNCHANGED uivars

\* Variant of ValidateCourse: a registration that ended without a passing
\* grade is recorded as invalid.
ValidateCourse_GradeGated ==
    /\ pc = "courses"
    /\ LET semester == semesters[i + 1]
           course == semester.courses[k + 1]
           v == validate_course(course, i, semesters, history, all_results)
       IN  /\ all_results' =
                  Append(all_results,
                         [semester_index |-> i,
                          course_code |-> course.code,
                          grade |-> course.grade,
                          is_valid |-> v.is_valid /\ is_passing_grade(course.grade),
                          reason |-> v.reason,
                          type |-> "prerequisite"])
           /\ IF k + 1 < Len(semester.courses)
              THEN /\ k' = k + 1
                   /\ UNCHANGED <<i, pc>>
              ELSE /\ k' = 0
                   /\ i' = i + 1
                   /\ pc' = IF i + 1 < Len(semesters) THEN "credit" ELSE "propagate"
    /\ UNCHANGED <<semesters, history, edits, propagated>>
    /\ UNCHANGED exvars
    /\ UNCHANGED uivars

\* main: one pass of the inner loop, course k of semester i; after the last
\* course of the last semester the loops are left.
ValidateCourse ==
    /\ pc = "courses"
    /\ LET semester == semesters[i + 1]
           course == semester.courses[k + 1]
           v == validate_course(course, i, semesters, history, all_results)
       IN  /\ all_results' =
                  Append(all_results,
                         [semester_index |-> i,
                          course_code |-> course.code,
                          grade |-> course.grade,
                          is_valid |-> v.is_valid,
                          reason |-> v.reason,
                          type |-> "prerequisite"])
           /\ IF k + 1 < Len(semester.courses)
              THEN /\ k' = k + 1
                   /\ UNCHANGED <<i, pc>>
              ELSE /\ k' = 0
                   /\ i' = i + 1
                   /\ pc' = IF i + 1 < Len(semesters) THEN "credit" ELSE "propagate"
    /\ UNCHANGED <<semesters, history, edits, propagated>>
    /\ UNCHANGED exvars
    /\ UNCHANGED uivars

\* main: validator.propagate_invalidation(semesters, all_results)
Propagate ==
    /\ pc = "propagate"
    /\ all_results' = propagate_invalidation(semesters, all_results)
    /\ pc' = "done"
    /\ propagated' = TRUE
    /\ UNCHANGED <<semesters, history, i, k, edits>>
    /\ UNCHANGED exvars
    /\ UNCHANGED uivars

\* A grade of the transcript is corrected after the run; the results stay.
CorrectGrade ==
    /\ pc = "done"
    /\ edits < MaxEdits
    /\ \E s \in DOMAIN semesters :
         \E c \in DOMAIN semesters[s].courses :
           \E g \in Grades \ {semesters[s].courses[c].grade} :
             semesters' = [semesters EXCEPT ![s].courses[c].grade = g]
    /\ edits' = edits + 1
    /\ propagated' = FALSE
    /\ UNCHANGED <<history, all_results, i, k, pc>>
    /\ UNCHANGED exvars
    /\ UNCHANGED uivars

\* Propagation is run again on the stored results.
PropagateAgain ==
    /\ pc = "done"
    /\ all_results' = propagate_invalidation(semesters, all_results)
    /\ propagated' = TRUE
    /\ UNCHANGED <<semesters, history, i, k, pc, edits>>
    /\ UNCHANGED exvars
    /\ UNCHANGED uivars

Next ==
    \/ BuildHistory
    \/ CheckCreditLimit
    \/ ValidateCourse
    \/ Propagate
    \/ CorrectGrade
    \/ PropagateAgain

Spec == Init /\ [][Next]_vars

\* The run on the transcripts around the vocabulary.
InitWide ==
    /\ \/ \E m \in 1 .. Len(CodeOrder) :
            \E kind \in Range(SemesterKinds), cr \in [1 .. m -> 3 .. 6] :
              semesters = CreditTranscript(kind, cr)
       \/ \E m \in 1 .. MaxSemesters :
            \E cs \in [1 .. m -> {CourseRecord(c, g) : c \in {"X", "Y"}, g \in ValidGrades}] :
              semesters = GradeTranscript(cs)
    /\ history = << >>
    /\ all_results = << >>
    /\ i = 0
    /\ k = 0
    /\ pc = "extracted"
    /\ edits = 0
    /\ propagated = FALSE
    /\ ExtractorIdle
    /\ UiIdle

NextWide ==
    \/ BuildHistory
    \/ CheckCreditLimit
    \/ ValidateCourse
    \/ Propagate

SpecWide == InitWide /\ [][NextWide]_vars

\* ------------------------------------------------------------ the extractor
\* A line that matches one of the semester_patterns, as its match reads.
HeaderLine(semester_type, year) ==
    [kind |-> "header", semester_type |-> semester_type, year |-> year]

\* A line that matches course_pattern, as its groups read: the code without
\* spaces and its number of digits, the length of the cleaned name, the grade
\* and the credits.
CandidateLine(code, digits, name_len, grade, credits) ==
    [kind |-> "course", code |-> code, digits |-> digits, name_len |-> name_len,
     grade |-> grade, credits |-> credits]

\* A line that matches the student-id pattern of extract_student_info.
StudentLine(id) == [kind |-> "student", id |-> id]

\* extract_student_info: the id of the first line that matches, every field
\* "Unknown" when nothing matches.
extract_student_info(text) ==
    LET found == {n \in DOMAIN text : text[n].kind = "student"}
    IN  [id |-> IF found = {} THEN "Unknown"
                ELSE text[CHOOSE n \in found : \A m \in found : n <= m].id,
         name |-> "Unknown",
         field_of_study |-> "Unknown",
         date_admission |-> "Unknown"]

\* The headers of the texts: a Second semester, and the Summer session of the
\* next calendar year.
HeaderLines == {HeaderLine("Second", 2020), HeaderLine("Summer", 2021)}

\* The course lines of the texts: two well-formed codes under four grades,
\* and one line whose credits read 0.
CandidateLines ==
    {CandidateLine(c, 8, 12, g, CourseCredits[c]) :
        c \in {"X", "Y"}, g \in {"A", "F", "W", "N"}}
    \cup {CandidateLine("X", 8, 12, "A", 0)}

\* The lines a text is made of.
TextLines == HeaderLines \cup CandidateLines

\* Course lines that fail one check each: a code of 7 digits, a name of two
\* characters, a grade outside the vocabulary, and credits above 6.
RejectedLines ==
    {CandidateLine("V", 7, 12, "A", 3),
     CandidateLine("X", 8, 2, "A", 3),
     CandidateLine("X", 8, 12, "E", 3),
     CandidateLine("X", 8, 12, "A", 7)}

\* extract_semesters: the line numbers of the semester headers, in order.
RECURSIVE MarkersFrom(_, _)
MarkersFrom(text, from) ==
    IF from >= Len(text) THEN << >>
    ELSE (IF text[from + 1].kind = "header" THEN <<from>> ELSE << >>)
         \o MarkersFrom(text, from + 1)

\* Variant of EndLine: every block runs to the end of the text.
EndLine_ToEnd(m) == Len(lines)

\* extract_semesters: the end boundary of the block of header m.
EndLine(m) ==
    IF m + 1 < Len(semester_markers) THEN semester_markers[m + 2] ELSE Len(lines)

\* extract_semesters: the record opened at a header.
NewSemester(header) ==
    [semester_type |-> header.semester_type,
     year |-> header.year,
     year_int |-> header.year,
     courses |-> << >>,
     total_credits |-> 0,
     semester_order |-> IF header.semester_type = "Summer" THEN 0
                        ELSE IF header.semester_type = "First" THEN 1 ELSE 2]

\* Variant of Accepted: a code already recorded in the block passes again.
Accepted_SeenAgain(candidate, seen) ==
    /\ candidate.kind = "course"
    /\ candidate.digits = 8
    /\ candidate.name_len >= 3
    /\ candidate.grade \in ValidGrades
    /\ candidate.credits > 0
    /\ candidate.credits <= 6

\* Variant of Accepted: the credits have no upper limit.
Accepted_AnyCredits(candidate, seen) ==
    /\ candidate.kind = "course"
    /\ candidate.digits = 8
    /\ candidate.code \notin seen
    /\ candidate.name_len >= 3
    /\ candidate.grade \in ValidGrades
    /\ candidate.credits > 0

\* extract_semesters: a candidate passes the checks of the loop body.
Accepted(candidate, seen) ==
    /\ candidate.kind = "course"
    /\ candidate.digits = 8
    /\ candidate.code \notin seen
    /\ candidate.name_len >= 3
    /\ candidate.grade \in ValidGrades
    /\ candidate.credits > 0
    /\ candidate.credits <= 6

\* A text of at most n lines, each from the given set, is to be processed.
InitTextOver(n, from) ==
    /\ \E m \in 0 .. n : lines \in [1 .. m -> from]
    /\ semesters = << >>
    /\ history = << >>
    /\ all_results = << >>
    /\ i = 0
    /\ k = 0
    /\ pc = "text"
    /\ edits = 0
    /\ propagated = FALSE
    /\ semester_markers = << >>
    /\ marker_idx = 0
    /\ line_num = 0
    /\ current_semester = NoSemester
    /\ seen_codes = {}
    /\ extracted = << >>
    /\ runs = 1
    /\ first_results = << >>
    /\ UiIdle

\* A text of at most n lines is to be processed.
InitText(n) == InitTextOver(n, TextLines)

\* Variant of NoText: the results of the last call are left in place.
NoText_KeepsLast ==
    /\ pc = "text"
    /\ lines = << >>
    /\ pc' = "stopped"
    /\ UNCHANGED <<semesters, history, all_results, i, k, edits, propagated>>
    /\ UNCHANGED exvars
    /\ UNCHANGED uivars

\* process_pdf on an empty text returns an empty student_info and an empty
\* semester list; main stops before the call with the same outcome.
NoText ==
    /\ pc = "text"
    /\ lines = << >>
    /\ student_info' = << >>
    /\ semesters' = << >>
    /\ pc' = "stopped"
    /\ UNCHANGED <<history, all_results, i, k, edits, propagated>>
    /\ UNCHANGED exvars
    /\ UNCHANGED <<session_state, pdf_file, validator, model, append_mode, reruns>>

\* Variant of FindMarkers: the semester list of the last call is kept and
\* extended.
FindMarkers_KeepsSemesters ==
    /\ pc = "text"
    /\ lines # << >>
    /\ extracted' = extracted
    /\ semester_markers' = MarkersFrom(lines, 0)
    /\ marker_idx' = 0
    /\ pc' = "markers"
    /\ UNCHANGED <<semesters, history, all_results, i, k, edits, propagated>>
    /\ UNCHANGED <<lines, line_num, current_semester, seen_codes, runs, first_results>>
    /\ UNCHANGED uivars

\* extract_semesters: semesters = [] and the scan for semester headers.
FindMarkers ==
    /\ pc = "text"
    /\ lines # << >>
    /\ extracted' = << >>
    /\ semester_markers' = MarkersFrom(lines, 0)
    /\ marker_idx' = 0
    /\ pc' = "markers"
    /\ UNCHANGED <<semesters, history, all_results, i, k, edits, propagated>>
    /\ UNCHANGED <<lines, line_num, current_semester, seen_codes, runs, first_results>>
    /\ UNCHANGED uivars

\* extract_semesters: the block of the next header is opened.
OpenSemester ==
    /\ pc = "markers"
    /\ marker_idx < Len(semester_markers)
    /\ LET sem_line_num == semester_markers[marker_idx + 1]
       IN  /\ current_semester' = NewSemester(lines[sem_line_num + 1])
           /\ line_num' = sem_line_num + 1
    /\ seen_codes' = {}
    /\ pc' = "lines"
    /\ UNCHANGED <<semesters, history, all_results, i, k, edits, propagated>>
    /\ UNCHANGED <<lines, semester_markers, marker_idx, extracted, runs, first_results>>
    /\ UNCHANGED uivars

\* Variant of RecordCourse: the credits of every recorded course are counted.
RecordCourse_CountsAll ==
    /\ pc = "lines"
    /\ line_num < EndLine(marker_idx)
    /\ LET candidate == lines[line_num + 1]
           course_data == [code |-> candidate.code,
                           grade |-> candidate.grade,
                           credits |-> candidate.credits]
       IN  /\ Accepted(candidate, seen_codes)
           /\ current_semester' =
                  [current_semester EXCEPT
                      !.courses = Append(@, course_data),
                      !.total_credits = @ + candidate.credits]
           /\ seen_codes' = seen_codes \cup {candidate.code}
    /\ line_num' = line_num + 1
    /\ UNCHANGED <<semesters, history, all_results, i, k, pc, edits, propagated>>
    /\ UNCHANGED <<lines, semester_markers, marker_idx, extracted, runs, first_results>>
    /\ UNCHANGED uivars

\* extract_semesters: the candidate of the line passes the checks and is
\* recorded.
RecordCourse ==
    /\ pc = "lines"
    /\ line_num < EndLine(marker_idx)
    /\ LET candidate == lines[line_num + 1]
           course_data == [code |-> candidate.code,
                           grade |-> candidate.grade,
                           credits |-> candidate.credits]
       IN  /\ Accepted(candidate, seen_codes)
           /\ current_semester' =
                  [current_semester EXCEPT
                      !.courses = Append(@, course_data),
                      !.total_credits =
                          IF candidate.grade \notin {"W", "N", ""}
                          THEN @ + candidate.credits ELSE @]
           /\ seen_codes' = seen_codes \cup {candidate.code}
    /\ line_num' = line_num + 1
    /\ UNCHANGED <<semesters, history, all_results, i, k, pc, edits, propagated>>
    /\ UNCHANGED <<lines, semester_markers, marker_idx, extracted, runs, first_results>>
    /\ UNCHANGED uivars

\* Variant of SkipCandidate: the code of a skipped candidate counts as seen.
SkipCandidate_MarksSeen ==
    /\ pc = "lines"
    /\ line_num < EndLine(marker_idx)
    /\ ~Accepted(lines[line_num + 1], seen_codes)
    /\ line_num' = line_num + 1
    /\ seen_codes' = seen_codes \cup {lines[line_num + 1].code}
    /\ UNCHANGED <<semesters, history, all_results, i, k, pc, edits, propagated>>
    /\ UNCHANGED <<lines, semester_markers, marker_idx, current_semester,
                   extracted, runs, first_results>>
    /\ UNCHANGED uivars

\* extract_semesters: the candidate of the line fails a check and is skipped.
SkipCandidate ==
    /\ pc = "lines"
    /\ line_num < EndLine(marker_idx)
    /\ ~Accepted(lines[line_num + 1], seen_codes)
    /\ line_num' = line_num + 1
    /\ UNCHANGED <<semesters, history, all_results, i, k, pc, edits, propagated>>
    /\ UNCHANGED <<lines, semester_markers, marker_idx, current_semester,
                   seen_codes, extracted, runs, first_results>>
    /\ UNCHANGED uivars

\* Variant of CloseSemester: every header yields a semester record.
CloseSemester_Always ==
    /\ pc = "lines"
    /\ line_num = EndLine(marker_idx)
    /\ extracted' = Append(extracted, current_semester)
    /\ marker_idx' = marker_idx + 1
    /\ pc' = "markers"
    /\ UNCHANGED <<semesters, history, all_results, i, k, edits, propagated>>
    /\ UNCHANGED <<lines, semester_markers, line_num, current_semester,
                   seen_codes, runs, first_results>>
    /\ UNCHANGED uivars

\* extract_semesters: the block is over; the semester is added if it has
\* courses.
CloseSemester ==
    /\ pc = "lines"
    /\ line_num = EndLine(marker_idx)
    /\ extracted' = IF current_semester.courses # << >>
                    THEN Append(extracted, current_semester)
                    ELSE extracted
    /\ marker_idx' = marker_idx + 1
    /\ pc' = "markers"
    /\ UNCHANGED <<semesters, history, all_results, i, k, edits, propagated>>
    /\ UNCHANGED <<lines, semester_markers, line_num, current_semester,
                   seen_codes, runs, first_results>>
    /\ UNCHANGED uivars

\* process_pdf returns the semester list; main stops when it is empty.
ReturnSemesters ==
    /\ pc = "markers"
    /\ marker_idx = Len(semester_markers)
    /\ student_info' = extract_student_info(lines)
    /\ semesters' = extracted
    /\ pc' = IF extracted = << >> THEN "stopped" ELSE "extracted"
    /\ UNCHANGED <<history, all_results, i, k, edits, propagated>>
    /\ UNCHANGED exvars
    /\ UNCHANGED <<session_state, pdf_file, validator, model, append_mode, reruns>>

NextExtract ==
    \/ NoText
    \/ FindMarkers
    \/ OpenSemester
    \/ RecordCourse
    \/ SkipCandidate
    \/ CloseSemester
    \/ ReturnSemesters

InitExtract == InitText(MaxLines)

SpecExtract == InitExtract /\ [][NextExtract]_vars

\* The extractor on shorter texts that also hold the lines it rejects.
InitParse == InitTextOver(MaxLines - 1, TextLines \cup RejectedLines)

SpecParse == InitParse /\ [][NextExtract]_vars

\* ---------------------------------------------------- the run from the text
\* main: the same text is processed once more; the results of the first run
\* are kept aside.
RunAgain ==
    /\ pc = "done"
    /\ runs < MaxRuns
    /\ runs' = runs + 1
    /\ first_results' = IF runs = 1 THEN all_results ELSE first_results
    /\ propagated' = FALSE
    /\ pc' = "text"
    /\ UNCHANGED <<semesters, history, all_results, i, k, edits>>
    /\ UNCHANGED <<lines, semester_markers, marker_idx, line_num, current_semester,
                   seen_codes, extracted>>
    /\ UNCHANGED uivars

NextRun ==
    \/ NoText
    \/ FindMarkers
    \/ OpenSemester
    \/ RecordCourse
    \/ SkipCandidate
    \/ CloseSemester
    \/ ReturnSemesters
    \/ BuildHistory
    \/ CheckCreditLimit
    \/ ValidateCourse
    \/ Propagate
    \/ RunAgain

InitRun == InitText(MaxLines - 1)

SpecRun == InitRun /\ [][NextRun]_vars

\* ------------------------------------------------ the session of the web app
\* The files a user can upload, by name.
UploadedFiles == {"a.pdf", "b.pdf", "blank.pdf", "notes.pdf"}

\* extract_text_from_pdf_bytes: the text of each file.  a.pdf has two
\* semesters, the second above the Summer ceiling; b.pdf has one failed
\* course, listed twice; blank.pdf has no text; notes.pdf has no semester header.
FileText(name) ==
    CASE name = "a.pdf" ->
           <<StudentLine("S1"),
             HeaderLine("Second", 2020), CandidateLine("Y", 8, 12, "A", 4),
             HeaderLine("Summer", 2021), CandidateLine("Z", 8, 12, "A", 6),
             CandidateLine("U", 8, 12, "A", 6)>>
      [] name = "b.pdf" ->
           <<StudentLine("S2"),
             HeaderLine("Second", 2020), CandidateLine("X", 8, 12, "F", 3),
             CandidateLine("X", 8, 12, "A", 3)>>
      [] name = "blank.pdf" -> << >>
      [] OTHER -> <<StudentLine("S3"), CandidateLine("X", 8, 12, "A", 3)>>

\* The codes that classify_course identifies with the loaded categories.
course_categories == {"X", "Y", "Z"}

\* analyze_unidentified_courses: the number of course records that are not
\* identified.
RECURSIVE analyze_unidentified_courses(_)
analyze_unidentified_courses(sems) ==
    IF sems = << >> THEN 0
    ELSE Cardinality({n \in DOMAIN Head(sems).courses :
                         Head(sems).courses[n].code \notin course_categories})
         + analyze_unidentified_courses(Tail(sems))

\* Variant of ResetForNewFile: only the file name is remembered.
ResetForNewFile_KeepsResults(state, name) ==
    [state EXCEPT !.last_pdf_name = name]

\* main: the processing state is reset for a newly uploaded file.
ResetForNewFile(state, name) ==
    [state EXCEPT !.processing_complete = FALSE,
                  !.student_info = << >>,
                  !.semesters = << >>,
                  !.validation_results = << >>,
                  !.unidentified_count = 0,
                  !.last_pdf_name = name]

\* main, from the sidebar to the start of processing: a catalog is selected,
\* a file is or is not in the uploader; a file with a new name resets the
\* processing state; processing starts when a file is there and processing
\* is not complete, else the script goes on to the display.
Rerun ==
    /\ pc \in {"display", "stopped"}
    /\ reruns < MaxReruns
    /\ reruns' = reruns + 1
    /\ \E selected_catalog \in DOMAIN available_course_data,
          file \in UploadedFiles \cup {None} :
         LET selected == [session_state EXCEPT
                             !.selected_course_data = selected_catalog]
             uploaded == IF file # None /\ selected.last_pdf_name # file
                         THEN ResetForNewFile(selected, file)
                         ELSE selected
         IN  /\ pdf_file' = file
             /\ session_state' = uploaded
             /\ IF file # None /\ ~uploaded.processing_complete
                THEN /\ lines' = FileText(file)
                     /\ pc' = "text"
                ELSE /\ lines' = lines
                     /\ pc' = "display"
    /\ propagated' = FALSE
    /\ UNCHANGED <<semesters, history, all_results, i, k, edits>>
    /\ UNCHANGED <<semester_markers, marker_idx, line_num, current_semester,
                   seen_codes, extracted, runs, first_results>>
    /\ UNCHANGED <<student_info, validator, model, append_mode>>

\* Variant of StoreResults: the results are stored as soon as the last
\* course was validated.
StoreResults_Early ==
    /\ pc \in {"propagate", "done"}
    /\ session_state' =
           [session_state EXCEPT
               !.student_info = student_info,
               !.semesters = semesters,
               !.validation_results = all_results,
               !.processing_complete = TRUE,
               !.unidentified_count = analyze_unidentified_courses(semesters)]
    /\ pc' = "display"
    /\ UNCHANGED <<semesters, history, all_results, i, k, edits, propagated>>
    /\ UNCHANGED exvars
    /\ UNCHANGED <<pdf_file, student_info, validator, model, append_mode, reruns>>

\* main: the results of the run are stored in the session.
StoreResults ==
    /\ pc = "done"
    /\ session_state' =
           [session_state EXCEPT
               !.student_info = student_info,
               !.semesters = semesters,
               !.validation_results = all_results,
               !.processing_complete = TRUE,
               !.unidentified_count = analyze_unidentified_courses(semesters)]
    /\ pc' = "display"
    /\ UNCHANGED <<semesters, history, all_results, i, k, edits, propagated>>
    /\ UNCHANGED exvars
    /\ UNCHANGED <<pdf_file, student_info, validator, model, append_mode, reruns>>

NextSession ==
    \/ Rerun
    \/ NoText
    \/ FindMarkers
    \/ OpenSemester
    \/ RecordCourse
    \/ SkipCandidate
    \/ CloseSemester
    \/ ReturnSemesters
    \/ BuildHistory
    \/ CheckCreditLimit
    \/ ValidateCourse
    \/ Propagate
    \/ StoreResults

\* The session before the first run of the script.
InitSession ==
    /\ semesters = << >>
    /\ history = << >>
    /\ all_results = << >>
    /\ i = 0
    /\ k = 0
    /\ pc = "display"
    /\ edits = 0
    /\ propagated = FALSE
    /\ ExtractorIdle
    /\ session_state = [InitialSession EXCEPT !.selected_course_data = None]
    /\ pdf_file = None
    /\ student_info = << >>
    /\ validator = "catalog_1"
    /\ model = EmptyModel
    /\ append_mode = FALSE
    /\ reruns = 0

SpecSession == InitSession /\ [][NextSession]_vars

\* ---------------------------------------------------- the desktop editor
\* The texts the extraction dialog hands over after manual correction: an
\* empty text, a text without a semester header, a header with a rejected
\* course only, one semester, and two semesters.
CorrectedTexts ==
    {<< >>,
     <<StudentLine("S3"), CandidateLine("X", 8, 12, "A", 3)>>,
     <<HeaderLine("Second", 2020), CandidateLine("X", 8, 12, "A", 0)>>,
     <<StudentLine("S1"), HeaderLine("Second", 2020),
       CandidateLine("X", 8, 12, "A", 3)>>,
     <<StudentLine("S2"), HeaderLine("Second", 2020),
       CandidateLine("X", 8, 12, "F", 3), HeaderLine("Summer", 2021),
       CandidateLine("Y", 8, 12, "A", 4)>>}

\* try_extract_pdf: the user chooses replace or append when the model has
\* semesters, then the corrected text goes to process_corrected_text.
TryExtractPdf ==
    /\ pc = "edit"
    /\ reruns < MaxReruns
    /\ reruns' = reruns + 1
    /\ lines' \in CorrectedTexts
    /\ append_mode' \in (IF model.semesters # << >> THEN BOOLEAN ELSE {FALSE})
    /\ pc' = "text"
    /\ UNCHANGED <<semesters, history, all_results, i, k, edits, propagated>>
    /\ UNCHANGED <<semester_markers, marker_idx, line_num, current_semester,
                   seen_codes, extracted, runs, first_results>>
    /\ UNCHANGED <<session_state, pdf_file, student_info, validator, model>>

\* Variant of ReportFailure: in replace mode the model takes what was
\* returned all the same.
ReportFailure_Replaces ==
    /\ pc \in {"extracted", "stopped"}
    /\ student_info = << >> \/ semesters = << >>
    /\ model' = IF append_mode THEN model
                ELSE [model EXCEPT !.student_info = student_info,
                                   !.semesters = semesters,
                                   !.current_semester_index = 0]
    /\ pc' = "edit"
    /\ UNCHANGED <<semesters, history, all_results, i, k, edits, propagated>>
    /\ UNCHANGED exvars
    /\ UNCHANGED <<session_state, pdf_file, student_info, validator, append_mode,
                   reruns>>

\* process_corrected_text: nothing was extracted; an error is shown and the
\* method returns.
ReportFailure ==
    /\ pc \in {"extracted", "stopped"}
    /\ student_info = << >> \/ semesters = << >>
    /\ pc' = "edit"
    /\ UNCHANGED <<semesters, history, all_results, i, k, edits, propagated>>
    /\ UNCHANGED exvars
    /\ UNCHANGED <<session_state, pdf_file, student_info, validator, model,
                   append_mode, reruns>>

\* Variant of UpdateModel: in append mode the extracted semesters are put
\* before the existing ones.
UpdateModel_AppendFirst ==
    /\ pc \in {"extracted", "stopped"}
    /\ student_info # << >> /\ semesters # << >>
    /\ model' =
           IF ~append_mode
           THEN [student_info |-> student_info,
                 semesters |-> semesters,
                 current_semester_index |-> 0,
                 changed |-> TRUE]
           ELSE LET extended == semesters \o model.semesters
                IN  [model EXCEPT
                        !.semesters = extended,
                        !.current_semester_index =
                            IF extended # << >> THEN Len(extended) - 1 ELSE 0,
                        !.changed = TRUE]
    /\ pc' = "edit"
    /\ UNCHANGED <<semesters, history, all_results, i, k, edits, propagated>>
    /\ UNCHANGED exvars
    /\ UNCHANGED <<session_state, pdf_file, student_info, validator, append_mode,
                   reruns>>

\* process_corrected_text: the model is replaced by, or extended with, what
\* was extracted, and marked as changed.
UpdateModel ==
    /\ pc \in {"extracted", "stopped"}
    /\ student_info # << >> /\ semesters # << >>
    /\ model' =
           IF ~append_mode
           THEN [student_info |-> student_info,
                 semesters |-> semesters,
                 current_semester_index |-> 0,
                 changed |-> TRUE]
           ELSE LET extended == model.semesters \o semesters
                IN  [model EXCEPT
                        !.semesters = extended,
                        !.current_semester_index =
                            IF extended # << >> THEN Len(extended) - 1 ELSE 0,
                        !.changed = TRUE]
    /\ pc' = "edit"
    /\ UNCHANGED <<semesters, history, all_results, i, k, edits, propagated>>
    /\ UNCHANGED exvars
    /\ UNCHANGED <<session_state, pdf_file, student_info, validator, append_mode,
                   reruns>>

NextEditor ==
    \/ TryExtractPdf
    \/ NoText
    \/ FindMarkers
    \/ OpenSemester
    \/ RecordCourse
    \/ SkipCandidate
    \/ CloseSemester
    \/ ReturnSemesters
    \/ ReportFailure
    \/ UpdateModel

\* The editor with an empty model.
InitEditor ==
    /\ semesters = << >>
    /\ history = << >>
    /\ all_results = << >>
    /\ i = 0
    /\ k = 0
    /\ pc = "edit"
    /\ edits = 0
    /\ propagated = FALSE
    /\ ExtractorIdle
    /\ UiIdle

SpecEditor == InitEditor /\ [][NextEditor]_vars

\* ------------------------------------------------------------- properties
HistoryBuilt == pc # "extracted"

\* The course results among the results so far.
CourseResults == {n \in DOMAIN all_results : all_results[n].type = "prerequisite"}

\* Code c has a grade of the set gs in semester index idx of sems.
HasGradeIn(sems, c, idx, gs) ==
    \E n \in DOMAIN sems[idx + 1].courses :
        /\ sems[idx + 1].courses[n].code = c
        /\ sems[idx + 1].courses[n].grade \in gs

\* The passing grades as the specification lists them.
PassingGrades == {"A", "B+", "B", "C+", "C", "D+", "D", "P"}

\* C1: the history is monotonic: for semester indices a < b the history at a
\* is a subset of the history at b, for the history of the run and for the
\* history of every semester list reached (a later non-passing repeat of a
\* passed course removes nothing).
C1_HistoryMonotone ==
    /\ \A a, b \in DOMAIN history : a < b => history[a] \subseteq history[b]
    /\ LET h == build_passed_courses_history(semesters)
       IN  \A a, b \in DOMAIN h : a < b => h[a] \subseteq h[b]

\* C1 witness: a course passed in semester 0, repeated with a non-passing
\* grade in semester 1, is in the history at index 2.
C1_Witness ==
    /\ HistoryBuilt
    /\ Len(semesters) >= 3
    /\ \E c \in Codes :
         /\ HasGradeIn(semesters, c, 0, PassingGrades)
         /\ HasGradeIn(semesters, c, 1, {"F", "W"})
         /\ c \in history[1]
         /\ c \in history[2]

\* The codes with a passing grade in some semester index below idx.
PassedBefore(sems, idx) ==
    {c \in Codes : \E j \in 0 .. (idx - 1) : HasGradeIn(sems, c, j, PassingGrades)}

\* C2: history[idx] is exactly the set of codes with a passing grade in a
\* semester of index strictly below idx (so history[0] is empty and a course
\* passed in semester idx itself is not in history[idx] on that account).
C2_HistoryExact ==
    /\ (HistoryBuilt /\ edits = 0) =>
           /\ DOMAIN history = 0 .. (Len(semesters) - 1)
           /\ history[0] = {}
           /\ \A idx \in DOMAIN history : history[idx] = PassedBefore(semesters, idx)
    /\ LET h == build_passed_courses_history(semesters)
       IN  \A idx \in DOMAIN h : h[idx] = PassedBefore(semesters, idx)

\* C2 witness: a course is passed in semester idx, the history at idx is not
\* empty and does not hold that course.
C2_Witness ==
    /\ HistoryBuilt
    /\ edits = 0
    /\ \E idx \in DOMAIN history : \E c \in Codes :
         /\ history[idx] # {}
         /\ HasGradeIn(semesters, c, idx, PassingGrades)
         /\ c \notin history[idx]

\* C3: a course code absent from the catalog is valid with the reason
\* "not in database": in every result, and for validate_course at every
\* semester index of the history, whatever the grade and the results so far.
C3_FailOpenUnknown ==
    /\ \A n \in CourseResults :
          all_results[n].course_code \notin DOMAIN CourseData =>
              /\ all_results[n].is_valid
              /\ all_results[n].reason.text = "Course not found in database"
    /\ \A c \in Codes \ DOMAIN CourseData : \A g \in Grades : \A idx \in DOMAIN history :
          LET v == validate_course(CourseRecord(c, g), idx, semesters, history, all_results)
          IN  v.is_valid /\ v.reason.text = "Course not found in database"

\* C3 witness: an unknown course was validated in a later semester, with a
\* non-empty history and other results before it.
C3_Witness ==
    \E n \in CourseResults :
        /\ all_results[n].course_code \notin DOMAIN CourseData
        /\ all_results[n].semester_index > 0
        /\ history[all_results[n].semester_index] # {}
        /\ n > 1
        /\ all_results[n].is_valid

\* The declared prerequisites of code c missing from the set passed.
MissingFrom(c, passed) == {p \in Range(CourseData[c]) : p \notin passed}

\* The results are as validate_course returned them.
BeforePropagation == pc \in {"credit", "courses", "propagate"}

\* C4: for a course in the catalog registered in semester index idx,
\* validate_course returns invalid exactly when a declared prerequisite is
\* not in history[idx]; no prerequisites means valid; a course with a
\* prerequisite registered in semester index 0 is invalid.
C4_InvalidIffMissing ==
    /\ BeforePropagation =>
          \A n \in CourseResults :
              LET r == all_results[n]
              IN  r.course_code \in DOMAIN CourseData =>
                    /\ (~r.is_valid) <=>
                           (MissingFrom(r.course_code, history[r.semester_index]) # {})
                    /\ CourseData[r.course_code] = << >> => r.is_valid
                    /\ (r.semester_index = 0 /\ CourseData[r.course_code] # << >>)
                           => ~r.is_valid
    /\ \A c \in DOMAIN CourseData : \A g \in Grades : \A idx \in DOMAIN history :
          LET v == validate_course(CourseRecord(c, g), idx, semesters, history, all_results)
          IN  (~v.is_valid) <=> (MissingFrom(c, history[idx]) # {})

\* C4 witness: a course with a prerequisite was found invalid in semester
\* index 0, a course with prerequisites was found valid later, and a course
\* without prerequisites was found valid.
C4_Witness ==
    /\ pc = "propagate"
    /\ \E n \in CourseResults :
         /\ all_results[n].semester_index = 0
         /\ all_results[n].course_code \in DOMAIN CourseData
         /\ CourseData[all_results[n].course_code] # << >>
         /\ ~all_results[n].is_valid
    /\ \E n \in CourseResults :
         /\ all_results[n].reason.text = "All prerequisites satisfied"
         /\ all_results[n].is_valid
    /\ \E n \in CourseResults :
         /\ all_results[n].reason.text = "No prerequisites required"
         /\ all_results[n].is_valid

\* C5: the reason of a result invalid for missing prerequisites names every
\* missing prerequisite: the set of codes in the reason is the set of declared
\* prerequisites that are not in the history of the result's semester index,
\* and validate_course gives every invalid result that reason.
C5_ReasonListsAllMissing ==
    /\ \A n \in CourseResults :
          LET r == all_results[n]
          IN  r.reason.text = "Missing prerequisites" =>
                /\ ~r.is_valid
                /\ Range(r.reason.codes) =
                       MissingFrom(r.course_code, history[r.semester_index])
    /\ BeforePropagation =>
          \A n \in CourseResults :
              ~all_results[n].is_valid => all_results[n].reason.text = "Missing prerequisites"

\* C5 witness: a result whose reason names two missing prerequisites, and a
\* result of the same course whose reason names one of its two.
C5_Witness ==
    /\ \E n \in CourseResults : Cardinality(Range(all_results[n].reason.codes)) = 2
    /\ \E n \in CourseResults :
         /\ all_results[n].reason.text = "Missing prerequisites"
         /\ Len(CourseData[all_results[n].course_code]) = 2
         /\ Len(all_results[n].reason.codes) = 1

\* Prerequisite p has grade F in a semester index below idx and no passing
\* grade in any semester after that F.
FailedNeverPassedAfter(sems, p, idx) ==
    \E a \in 0 .. (idx - 1) :
        /\ HasGradeIn(sems, p, a, {"F"})
        /\ \A b \in (a + 1) .. (Len(sems) - 1) : ~HasGradeIn(sems, p, b, PassingGrades)

\* A step that runs propagate_invalidation on the semester list.
PropagationStep ==
    /\ pc \in {"propagate", "done"}
    /\ propagated'
    /\ semesters' = semesters

\* Scenario 4 before the re-run: x without prerequisites was passed in semester
\* 0 when the run validated y, a course of semester 1 with prerequisite x, as
\* valid; the result of y is still valid; x now has grade F in semester 0 and
\* is the only prerequisite of y with an F.
Scenario4(x, y) ==
    /\ pc = "done"
    /\ Len(semesters) >= 2
    /\ x \in DOMAIN CourseData /\ y \in DOMAIN CourseData
    /\ CourseData[x] = << >>
    /\ x \in Range(CourseData[y])
    /\ x \in history[1]
    /\ MissingFrom(y, history[1]) = {}
    /\ HasGradeIn(semesters, x, 0, {"F"})
    /\ FailedNeverPassedAfter(semesters, x, 1)
    /\ \A p \in Range(CourseData[y]) \ {x} : ~HasGradeIn(semesters, p, 0, {"F"})
    /\ \E n \in CourseResults :
          /\ all_results[n].course_code = y
          /\ all_results[n].semester_index = 1
          /\ all_results[n].is_valid

\* C6: a propagation step flips every course result that is still valid and
\* has a prerequisite with grade F in an earlier semester that was never
\* passed afterwards: the result becomes invalid and its reason names a
\* prerequisite with an F in an earlier semester. In scenario 4 the re-run
\* leaves the result of y invalid with a reason that names x.
C6_PropagationFlips ==
    /\ [][PropagationStep =>
            \A n \in CourseResults :
                LET r == all_results[n]
                    r2 == all_results'[n]
                IN  (/\ r.is_valid
                     /\ r.course_code \in DOMAIN CourseData
                     /\ \E p \in Range(CourseData[r.course_code]) :
                            FailedNeverPassedAfter(semesters, p, r.semester_index))
                    => /\ ~r2.is_valid
                       /\ \E q \in Range(r2.reason.codes) :
                              /\ q \in Range(CourseData[r.course_code])
                              /\ \E a \in 0 .. (r.semester_index - 1) :
                                     HasGradeIn(semesters, q, a, {"F"})]_vars
    /\ [][PropagationStep =>
            \A x, y \in Codes :
                Scenario4(x, y) =>
                    \A n \in CourseResults :
                        (all_results[n].course_code = y /\ all_results[n].semester_index = 1)
                            => /\ ~all_results'[n].is_valid
                               /\ x \in Range(all_results'[n].reason.codes)]_vars

\* C6 witness: scenario 4 after the re-run: the result of semester 0 still
\* shows the passing grade of X, X has grade F now, and the result of Y in
\* semester 1 was flipped with a reason that names X.
C6_Witness ==
    /\ pc = "done"
    /\ propagated
    /\ edits = 1
    /\ Len(semesters) >= 2
    /\ "X" \in history[1]
    /\ HasGradeIn(semesters, "X", 0, {"F"})
    /\ \E n \in CourseResults :
         /\ all_results[n].course_code = "X"
         /\ all_results[n].semester_index = 0
         /\ all_results[n].grade = "A"
         /\ all_results[n].is_valid
    /\ \E n \in CourseResults :
         /\ all_results[n].course_code = "Y"
         /\ all_results[n].semester_index = 1
         /\ ~all_results[n].is_valid
         /\ all_results[n].reason = Reason("Prerequisite failed", <<"X">>, 0)

\* C7: no step turns an invalid result valid: every result stays in the list
\* and a result that is invalid stays invalid, over validation, propagation,
\* grade corrections and repeated propagation.
C7_NeverRevalidated ==
    [][\A n \in DOMAIN all_results :
          /\ n \in DOMAIN all_results'
          /\ ~all_results[n].is_valid => ~all_results'[n].is_valid]_vars

\* C7 witness: propagation has run again after a correction, and a result
\* stays invalid although on the corrected semesters its course misses no
\* prerequisite and has no failed prerequisite before it.
C7_Witness ==
    /\ propagated
    /\ edits >= 1
    /\ \E n \in CourseResults :
         LET r == all_results[n]
         IN  /\ ~r.is_valid
             /\ r.course_code \in DOMAIN CourseData
             /\ MissingFrom(r.course_code, PassedBefore(semesters, r.semester_index)) = {}
             /\ \A p \in Range(CourseData[r.course_code]) :
                    \A a \in 0 .. (r.semester_index - 1) :
                        ~HasGradeIn(semesters, p, a, {"F"})

\* C8: once propagation has run, running it again on its own results with
\* the same semesters changes no result.
C8_FixedPointInOnePass ==
    propagated => propagate_invalidation(semesters, all_results) = all_results

\* C8 witness: propagation has run and flipped two results.
C8_Witness ==
    /\ propagated
    /\ \E n, m \in CourseResults :
         /\ n # m
         /\ all_results[n].reason.text = "Prerequisite failed"
         /\ all_results[m].reason.text = "Prerequisite failed"

\* C9: after propagation no course result is valid when the registration that
\* passed one of its prerequisites in an earlier semester has an invalid
\* result.
C9_CascadeOnInvalid ==
    propagated =>
        \A n, m \in CourseResults :
            LET pre == all_results[n]
                r == all_results[m]
            IN  ~(/\ r.is_valid
                  /\ r.course_code \in DOMAIN CourseData
                  /\ pre.course_code \in Range(CourseData[r.course_code])
                  /\ pre.semester_index < r.semester_index
                  /\ HasGradeIn(semesters, pre.course_code, pre.semester_index, PassingGrades)
                  /\ ~pre.is_valid)

\* Semester index idx has been through the credit-limit check.
CreditChecked(idx) == idx < i \/ (idx = i /\ pc = "courses")

\* C10: a credit-limit result is valid from its creation to the end of the
\* run and over every later propagation; a semester that was checked has a
\* credit-limit result exactly when the check reports it over the ceiling.
C10_CreditLimitIsWarning ==
    /\ \A n \in DOMAIN all_results :
          all_results[n].type = "credit_limit" => all_results[n].is_valid
    /\ HistoryBuilt =>
          \A idx \in 0 .. (Len(semesters) - 1) :
              CreditChecked(idx) =>
                  ((\E n \in DOMAIN all_results :
                       /\ all_results[n].type = "credit_limit"
                       /\ all_results[n].semester_index = idx)
                   <=> ~validate_credit_limit(semesters[idx + 1]).ok)

\* C10 witness: the run is over, propagation flipped a course result, and the
\* credit-limit result of an overloaded semester is valid.
C10_Witness ==
    /\ pc = "done"
    /\ propagated
    /\ \E n \in CourseResults : all_results[n].reason.text = "Prerequisite failed"
    /\ \E n \in DOMAIN all_results :
         /\ all_results[n].type = "credit_limit"
         /\ all_results[n].reason.text = "Exceeds maximum credits"
         /\ all_results[n].is_valid

\* C11: the credit-limit check reports "not ok" exactly when the semester's
\* total_credits is strictly greater than its ceiling, 9 for a Summer
\* semester and 22 for a First or Second one; a load equal to the ceiling is
\* ok.  Checked on the verdict and on the result the run appends for it.
C11_CreditCeiling ==
    \A idx \in 0 .. (Len(semesters) - 1) :
      LET semester == semesters[idx + 1]
          over == semester.total_credits >
                      (IF semester.semester_type = "Summer" THEN 9 ELSE 22)
      IN  /\ validate_credit_limit(semester).ok <=> ~over
          /\ CreditChecked(idx) =>
                (over <=> \E n \in DOMAIN all_results :
                            /\ all_results[n].type = "credit_limit"
                            /\ all_results[n].semester_index = idx)

\* A First semester of exactly 22 credits has been checked and no credit-limit
\* result was appended.
C11_Witness ==
    /\ CreditChecked(0)
    /\ semesters[1].semester_type = "First"
    /\ semesters[1].total_credits = 22
    /\ \A n \in DOMAIN all_results : all_results[n].type # "credit_limit"

\* The results of a kind recorded for semester index idx and a code.
ResultsFor(kind, idx, code) ==
    {n \in DOMAIN all_results :
        /\ all_results[n].type = kind
        /\ all_results[n].semester_index = idx
        /\ all_results[n].course_code = code}

\* C12: once the loops of a validation run are over, every course record of
\* every semester has exactly one prerequisite result carrying its semester
\* index and code, and a semester has at most one credit-limit result; the
\* credit-limit result stands beside the course results of its semester and
\* takes the place of none.  The same holds for every semester already left.
C12_CompleteResultSet ==
    \A idx \in 0 .. (Len(semesters) - 1) :
      idx < i =>
        /\ \A c \in DOMAIN semesters[idx + 1].courses :
             Cardinality(ResultsFor("prerequisite", idx,
                                    semesters[idx + 1].courses[c].code)) = 1
        /\ Cardinality(ResultsFor("credit_limit", idx, "CREDIT_LIMIT")) <= 1
        /\ \A n \in DOMAIN all_results :
             all_results[n].semester_index = idx =>
               \/ all_results[n].type = "credit_limit"
               \/ \E c \in DOMAIN semesters[idx + 1].courses :
                    all_results[n].course_code = semesters[idx + 1].courses[c].code

\* The run is over and a semester of two courses has its credit-limit result
\* and both of its course results.
C12_Witness ==
    /\ pc = "done"
    /\ \E idx \in 0 .. (Len(semesters) - 1) :
         /\ Len(semesters[idx + 1].courses) = 2
         /\ Cardinality(ResultsFor("credit_limit", idx, "CREDIT_LIMIT")) = 1
         /\ Cardinality({n \in CourseResults : all_results[n].semester_index = idx}) = 2

\* The semesters that can stand at the index of a course with the given code:
\* the course with any grade, alone or beside one passed companion.
OwnSemesters(code) ==
    {SemesterRecord("First", <<CourseRecord(code, g)>>) : g \in Grades}
    \cup {SemesterRecord("First", <<CourseRecord(code, g), CourseRecord(d, "A")>>) :
            g \in Grades, d \in Codes \ {code}}

\* What can follow that index: nothing, or one more semester of one course.
LaterSemesters ==
    {<< >>} \cup {<<SemesterRecord("Second", <<CourseRecord(c, g)>>)>> :
                    c \in Codes, g \in Grades}

\* Semester lists that agree with sems on every semester before index idx
\* and hold a course with the given code at index idx.
AgreeingBefore(sems, idx, code) ==
    {SubSeq(sems, 1, idx) \o <<own>> \o later :
        own \in OwnSemesters(code), later \in LaterSemesters}

\* C14: no lookahead.  The (is_valid, reason) validate_course returned for a
\* course of semester index idx depends only on the catalog and on the
\* semesters before idx: every semester list that agrees with the transcript
\* before idx and holds the course's code at idx gives the same pair, whatever
\* stands at idx and after it.
C14_NoLookahead ==
    pc = "propagate" =>
      \A n \in CourseResults :
        LET r == all_results[n]
        IN  \A alt \in AgreeingBefore(semesters, r.semester_index, r.course_code) :
              LET v == validate_course(CourseRecord(r.course_code, r.grade),
                                       r.semester_index, alt,
                                       build_passed_courses_history(alt), << >>)
              IN  v.is_valid = r.is_valid /\ v.reason = r.reason

\* Every course has been validated; one is invalid although a prerequisite it
\* misses is passed in its own semester or in a later one.
C14_Witness ==
    /\ pc = "propagate"
    /\ \E n \in CourseResults :
         LET r == all_results[n]
         IN  /\ ~r.is_valid
             /\ InCatalog(r.course_code)
             /\ \E p \in Range(Prerequisites(r.course_code)) :
                  /\ p \notin history[r.semester_index]
                  /\ \E j \in r.semester_index .. (Len(semesters) - 1) :
                       HasGradeIn(semesters, p, j, PassingGrades)

\* C15: the grade a course ended with does not gate its prerequisite
\* validity.  The is_valid recorded for a course is the one validate_course
\* returns for the same code at the same index with any other grade of the
\* vocabulary or with no grade at all.
C15_GradeDoesNotGate ==
    BeforePropagation =>
      \A n \in CourseResults :
        LET r == all_results[n]
        IN  \A g \in ValidGrades \cup {""} :
              validate_course(CourseRecord(r.course_code, g), r.semester_index,
                              semesters, history, all_results).is_valid = r.is_valid

\* A course that ended with F has a valid result because its prerequisite was
\* passed before, and a course that ended with A has an invalid one.
C15_Witness ==
    /\ BeforePropagation
    /\ \E n \in CourseResults :
         /\ all_results[n].is_valid
         /\ all_results[n].grade = "F"
         /\ InCatalog(all_results[n].course_code)
         /\ Prerequisites(all_results[n].course_code) # << >>
    /\ \E n \in CourseResults :
         /\ ~all_results[n].is_valid
         /\ all_results[n].grade = "A"

\* The grades that do not pass: failed, withdrawn, in progress, incomplete,
\* satisfactory, unsatisfactory, or no grade.
NotPassingGrades == {"F", "W", "N", "I", "S", "U", ""}

\* C16: only passing grades enter the history.  A code whose every occurrence
\* before index idx carries a grade outside {A, B+, B, C+, C, D+, D, P} is not
\* in history[idx]; a course that failed and is repeated enters the history
\* only from the index after its first passing occurrence.
C16_OnlyPassingEnter ==
    /\ \A g \in NotPassingGrades : ~is_passing_grade(g)
    /\ HistoryBuilt =>
         \A idx \in DOMAIN history :
           \A c \in Codes :
             /\ (\A j \in 0 .. (idx - 1) :
                    ~HasGradeIn(semesters, c, j,
                                {"A", "B+", "B", "C+", "C", "D+", "D", "P"}))
                  => c \notin history[idx]
             /\ \A f \in 0 .. (idx - 1) :
                  \A p \in (f + 1) .. (Len(semesters) - 1) :
                    ( /\ HasGradeIn(semesters, c, f, {"F"})
                      /\ HasGradeIn(semesters, c, p, PassingGrades)
                      /\ \A j \in 0 .. (p - 1) :
                           ~HasGradeIn(semesters, c, j, PassingGrades) )
                    => (c \in history[idx] <=> idx > p)

\* X failed in the first semester, was repeated with a pass in the second and
\* is in the history from the third on, not before.
C16_Witness ==
    /\ HistoryBuilt
    /\ Len(semesters) = 3
    /\ HasGradeIn(semesters, "X", 0, {"F"})
    /\ HasGradeIn(semesters, "X", 1, PassingGrades)
    /\ "X" \notin history[0] \cup history[1]
    /\ "X" \in history[2]

\* ---- the text read directly, for the claims about extract_semesters ----
\* process_pdf has returned.
Returned == pc \in {"extracted", "stopped"}

\* Positions (from 1) of the header lines of a text.
HeaderPositions(text) == {n \in DOMAIN text : text[n].kind = "header"}

\* Positions of the lines of the block that header position h opens: the
\* lines after h up to the next header or the end of the text.
BlockOf(text, h) ==
    {n \in (h + 1) .. Len(text) : \A j \in (h + 1) .. n : text[j].kind # "header"}

\* A candidate that is a valid course record by itself.
WellFormed(candidate) ==
    /\ candidate.digits = 8
    /\ candidate.name_len >= 3
    /\ candidate.grade \in ValidGrades
    /\ candidate.credits \in 1 .. 6

\* Positions of the block of h that hold the first valid candidate of a code.
FirstOfCode(text, h) ==
    {n \in BlockOf(text, h) :
        /\ WellFormed(text[n])
        /\ \A j \in BlockOf(text, h) :
             (j < n /\ text[j].code = text[n].code) => ~WellFormed(text[j])}

\* Headers whose block yields at least one valid course, and the place such a
\* header takes among them.
KeptHeaders(text) == {h \in HeaderPositions(text) : FirstOfCode(text, h) # {}}

RankOf(text, h) == Cardinality({g \in KeptHeaders(text) : g <= h})

\* The records of a semester that carry a given code.
RecordsOf(semester, code) ==
    {n \in DOMAIN semester.courses : semester.courses[n].code = code}

\* The semester records at hand: returned, collected, or under construction.
SemestersAtHand == Range(semesters) \cup Range(extracted) \cup {current_semester}

\* C18: deduplication.  No semester record holds two course records with the
\* same code; a code that appears in a block is recorded there once, with the
\* grade and credits of its first valid occurrence, whatever follows it in the
\* block; and the same code in two different blocks is recorded in both.
C18_OneRecordPerCode ==
    /\ \A semester \in SemestersAtHand :
         \A c \in Codes : Cardinality(RecordsOf(semester, c)) <= 1
    /\ (Returned /\ Len(semesters) = Cardinality(KeptHeaders(lines))) =>
         \A h \in KeptHeaders(lines) :
           LET semester == semesters[RankOf(lines, h)]
           IN  /\ \A n \in FirstOfCode(lines, h) :
                    \E r \in RecordsOf(semester, lines[n].code) :
                      /\ semester.courses[r].grade = lines[n].grade
                      /\ semester.courses[r].credits = lines[n].credits
               /\ Len(semester.courses) = Cardinality(FirstOfCode(lines, h))

\* A block lists one code on two valid lines, a later block lists it again,
\* and both returned semesters hold one record of it.
C18_Witness ==
    /\ pc = "extracted"
    /\ Len(semesters) = 2
    /\ \E c \in Codes :
         /\ \A s \in 1 .. 2 : Cardinality(RecordsOf(semesters[s], c)) = 1
         /\ \E h \in HeaderPositions(lines) :
              \E a, b \in BlockOf(lines, h) :
                /\ a < b
                /\ WellFormed(lines[a]) /\ WellFormed(lines[b])
                /\ lines[a].code = c /\ lines[b].code = c
                /\ lines[a].grade # lines[b].grade

\* C19: every semester extract_semesters returns has at least one course.  A
\* header whose block yields no valid course gives no semester record, and
\* the other headers give theirs in the order of the document.
C19_NoEmptySemesters ==
    /\ \A semester \in Range(semesters) \cup Range(extracted) :
         semester.courses # << >>
    /\ Returned =>
         /\ Len(semesters) = Cardinality(KeptHeaders(lines))
         /\ \A h \in KeptHeaders(lines) :
              /\ semesters[RankOf(lines, h)].semester_type = lines[h].semester_type
              /\ semesters[RankOf(lines, h)].year_int = lines[h].year

\* Of three headers one opens a block without a valid course; the two others
\* are returned, different from each other and in the order of the document.
C19_Witness ==
    /\ pc = "extracted"
    /\ Cardinality(HeaderPositions(lines)) = 3
    /\ Len(semesters) = 2
    /\ semesters[1].semester_type # semesters[2].semester_type
    /\ \E h \in HeaderPositions(lines) \ KeptHeaders(lines) :
         \E g \in KeptHeaders(lines) : h < g

\* The credits of the records of a course list that count toward the load.
CountedCredits(courses) ==
    SumSeq([n \in DOMAIN courses |->
               IF courses[n].grade \in {"W", "N", ""} THEN 0 ELSE courses[n].credits])

\* C20: total_credits of a semester is the sum of the credits of exactly its
\* recorded courses whose grade is neither W nor in progress (N or empty).
\* Failed courses count; lines dropped as duplicates do not.
C20_TotalCredits ==
    /\ \A semester \in SemestersAtHand :
         semester.total_credits = CountedCredits(semester.courses)
    /\ (Returned /\ Len(semesters) = Cardinality(KeptHeaders(lines))) =>
         \A h \in KeptHeaders(lines) :
           semesters[RankOf(lines, h)].total_credits =
             SumSeq([n \in 1 .. Len(lines) |->
                        IF n \in FirstOfCode(lines, h) /\ lines[n].grade \notin {"W", "N", ""}
                        THEN lines[n].credits ELSE 0])

\* A returned semester holds a failed course and a withdrawn one and counts
\* the failed one only, and its block had a second line for the failed code.
C20_Witness ==
    /\ pc = "extracted"
    /\ \E h \in KeptHeaders(lines) :
         LET semester == semesters[RankOf(lines, h)]
         IN  /\ \E a, b \in DOMAIN semester.courses :
                  /\ semester.courses[a].grade = "F"
                  /\ semester.courses[b].grade = "W"
                  /\ semester.total_credits = semester.courses[a].credits
             /\ \E a, b \in BlockOf(lines, h) :
                  /\ a < b
                  /\ lines[a].code = lines[b].code
                  /\ lines[a].grade = "F"
                  /\ WellFormed(lines[b])
                  /\ lines[b].grade \notin {"F", "W", "N"}

\* Semester a is not later than semester b: calendar year first, then the
\* order within the year (Summer 0, First 1, Second 2).
NotLater(a, b) ==
    \/ a.year_int < b.year_int
    \/ (a.year_int = b.year_int /\ a.semester_order <= b.semester_order)

\* C13: the semester list handed to build_passed_courses_history and indexed
\* by validate_course is in chronological order, whatever the order of the
\* semester headers in the text: a smaller index is never a later semester.
C13_ChronologicalInput ==
    pc \in {"credit", "courses", "propagate", "done"} =>
      \A a, b \in DOMAIN semesters : a < b => NotLater(semesters[a], semesters[b])

\* C17: idempotence of the pipeline.  When the same text has been processed
\* again under the same catalog, the result list is the one of the first run:
\* same results in the same order, with the same is_valid and reason.
C17_Idempotent ==
    (runs > 1 /\ pc = "done") => all_results = first_results

\* The text has been processed twice and gave results, one of them invalid,
\* for more than one semester.
C17_Witness ==
    /\ runs > 1
    /\ pc = "done"
    /\ Len(semesters) > 1
    /\ \E n \in CourseResults : ~all_results[n].is_valid
    /\ \E n \in CourseResults : all_results[n].is_valid

\* A candidate with eight digits, a grade of the vocabulary and credits above
\* 0 and at most 6.
WithinLimits(candidate) ==
    /\ candidate.digits = 8
    /\ candidate.grade \in {"A", "B+", "B", "C+", "C", "D+", "D",
                            "F", "W", "N", "P", "I", "S", "U"}
    /\ candidate.credits > 0
    /\ candidate.credits <= 6

\* C21: every course record the extractor produces has credits above 0 and
\* at most 6, a code of exactly 8 digits, and a grade of the vocabulary; a
\* candidate that fails one of these is not recorded: each record is a line
\* of the text within these limits, and a returned semester has no more
\* records than its block has such lines.
C21_RecordValidity ==
    /\ \A semester \in SemestersAtHand :
         \A n \in DOMAIN semester.courses :
           LET record == semester.courses[n]
           IN  /\ record.credits > 0 /\ record.credits <= 6
               /\ record.code \in Codes
               /\ record.grade \in {"A", "B+", "B", "C+", "C", "D+", "D",
                                    "F", "W", "N", "P", "I", "S", "U"}
               /\ \E m \in DOMAIN lines :
                    /\ lines[m].kind = "course"
                    /\ WithinLimits(lines[m])
                    /\ lines[m].code = record.code
                    /\ lines[m].grade = record.grade
                    /\ lines[m].credits = record.credits
    /\ pc = "extracted" =>
         \A h \in KeptHeaders(lines) :
           Len(semesters[RankOf(lines, h)].courses) <=
             Cardinality({n \in BlockOf(lines, h) : WithinLimits(lines[n])})

\* A returned semester holds one record although its block had three course
\* lines: two of them were outside the limits in different ways.
C21_Witness ==
    /\ pc = "extracted"
    /\ \E h \in KeptHeaders(lines) :
         /\ Len(semesters[RankOf(lines, h)].courses) = 1
         /\ \E a, b \in BlockOf(lines, h) :
              /\ ~WithinLimits(lines[a])
              /\ ~WithinLimits(lines[b])
              /\ lines[a] # lines[b]

\* C22: a rejected course candidate is skipped.  The step that reads a
\* candidate failing a check goes on to the next line and leaves the open
\* semester (its courses and total_credits) and the seen codes as they were;
\* so at every moment, a code whose valid occurrence was read in the open
\* block is recorded there, however many rejected occurrences came before it.
C22_RejectedIsSkipped ==
    [][/\ (pc = "lines" /\ line_num' = line_num + 1
              /\ ~WellFormed(lines[line_num + 1])) =>
            /\ pc' = "lines"
            /\ current_semester' = current_semester
            /\ seen_codes' = seen_codes
       /\ (pc' = "lines") =>
            \A n \in (semester_markers'[marker_idx' + 1] + 2) .. line_num' :
              WellFormed(lines'[n]) =>
                /\ lines'[n].code \in seen_codes'
                /\ RecordsOf(current_semester', lines'[n].code) # {}]_vars

\* A block lists a code first on a rejected line and then on a valid one, and
\* the returned semester holds the valid one.
C22_Witness ==
    /\ pc = "extracted"
    /\ \E h \in KeptHeaders(lines) :
         \E a, b \in BlockOf(lines, h) :
           /\ a < b
           /\ lines[a].code = lines[b].code
           /\ ~WellFormed(lines[a])
           /\ WellFormed(lines[b])
           /\ \A j \in BlockOf(lines, h) : j < b => ~WellFormed(lines[j])
           /\ \E n \in DOMAIN semesters[RankOf(lines, h)].courses :
                /\ semesters[RankOf(lines, h)].courses[n].code = lines[b].code
                /\ semesters[RankOf(lines, h)].courses[n].grade = lines[b].grade

\* C24: semester segmentation.  While a block is read, the open semester is
\* the one of its header and the lines read lie between that header and the
\* next one; the returned semesters are those of the headers whose block has
\* a valid course, each with the kind and year of its header and with exactly
\* the first valid occurrences of the codes of its own block, in their
\* order; a course line before the first header is in none of them.
C24_Segmentation ==
    /\ pc = "lines" =>
         LET h == semester_markers[marker_idx + 1] + 1
         IN  /\ lines[h].kind = "header"
             /\ line_num \in {h} \cup BlockOf(lines, h)
             /\ current_semester.semester_type = lines[h].semester_type
             /\ current_semester.year = lines[h].year
    /\ pc = "extracted" =>
         /\ Len(semesters) = Cardinality(KeptHeaders(lines))
         /\ \A h \in KeptHeaders(lines) :
              LET semester == semesters[RankOf(lines, h)]
              IN  /\ semester.semester_type = lines[h].semester_type
                  /\ semester.year = lines[h].year
                  /\ Len(semester.courses) = Cardinality(FirstOfCode(lines, h))
                  /\ \A n \in DOMAIN semester.courses :
                       \E m \in FirstOfCode(lines, h) :
                         /\ semester.courses[n].code = lines[m].code
                         /\ semester.courses[n].grade = lines[m].grade
                         /\ Cardinality({j \in FirstOfCode(lines, h) : j <= m}) = n

\* A text with a valid course line before the first header and two headers
\* with different courses: two semesters are returned, and the code of the
\* line before the first header is in the second one only.
C24_Witness ==
    /\ pc = "extracted"
    /\ Len(lines) = 5
    /\ lines[1].kind = "course" /\ WellFormed(lines[1])
    /\ lines[2].kind = "header" /\ lines[4].kind = "header"
    /\ WellFormed(lines[3]) /\ WellFormed(lines[5])
    /\ lines[3].code # lines[1].code
    /\ lines[5].code = lines[1].code
    /\ Len(semesters) = 2
    /\ RecordsOf(semesters[1], lines[1].code) = {}
    /\ RecordsOf(semesters[2], lines[1].code) # {}

\* Prerequisite p was passed in a semester below idx and has grade F in a
\* later semester below idx.
PassedThenFailed(sems, p, idx) ==
    \E a, b \in 0 .. (idx - 1) :
        /\ a < b
        /\ HasGradeIn(sems, p, a, PassingGrades)
        /\ HasGradeIn(sems, p, b, {"F"})

\* C28 as stated: the propagation of a run, on the results validate_course
\* just produced from the same semester list, changes no result.
C28_PropagationChangesNothing ==
    [][pc = "propagate" => all_results' = all_results]_vars

\* C28 amended: the propagation of a run changes a result only of a course
\* in the catalog one of whose prerequisites was passed and then failed in a
\* later semester before the course's semester; every other result, and every
\* result of a transcript without such a repeat, is left as validate_course
\* produced it.
C28_ChangesOnlyAfterPassThenFail ==
    [][pc = "propagate" =>
         /\ DOMAIN all_results' = DOMAIN all_results
         /\ \A n \in DOMAIN all_results :
              all_results'[n] # all_results[n] =>
                 /\ n \in CourseResults
                 /\ all_results[n].course_code \in DOMAIN CourseData
                 /\ \E p \in Range(CourseData[all_results[n].course_code]) :
                      PassedThenFailed(semesters, p, all_results[n].semester_index)]_vars

\* The propagation of the run itself, before any correction, has flipped a
\* result that validate_course found valid.
C28_Witness ==
    /\ pc = "done"
    /\ edits = 0
    /\ propagated
    /\ \E n \in CourseResults :
         /\ all_results[n].reason.text = "Prerequisite failed"
         /\ MissingFrom(all_results[n].course_code,
                        history[all_results[n].semester_index]) = {}

\* The stored results are on display.
Displayed ==
    /\ pc = "display"
    /\ pdf_file # None
    /\ session_state.processing_complete

\* C26: a rerun with a file whose name differs from last_pdf_name (or with no
\* last_pdf_name) resets the processing state and goes to processing, not to
\* the display; a rerun with the same file name keeps the stored results; and
\* whatever is displayed is the outcome of processing the file in the
\* uploader.
C26_ResetOnNewUpload ==
    [][/\ (reruns' = reruns + 1 /\ pdf_file' # None) =>
            IF session_state.last_pdf_name # pdf_file'
            THEN /\ ~session_state'.processing_complete
                 /\ session_state'.student_info = << >>
                 /\ session_state'.semesters = << >>
                 /\ session_state'.validation_results = << >>
                 /\ session_state'.unidentified_count = 0
                 /\ session_state'.last_pdf_name = pdf_file'
                 /\ pc' = "text"
            ELSE /\ session_state'.processing_complete = session_state.processing_complete
                 /\ session_state'.student_info = session_state.student_info
                 /\ session_state'.semesters = session_state.semesters
                 /\ session_state'.validation_results = session_state.validation_results
                 /\ session_state'.unidentified_count = session_state.unidentified_count
       /\ Displayed' =>
            /\ session_state'.last_pdf_name = pdf_file'
            /\ lines' = FileText(pdf_file')
            /\ session_state'.student_info = extract_student_info(FileText(pdf_file'))
            /\ session_state'.semesters = semesters'
            /\ session_state'.validation_results = all_results']_vars

\* b.pdf was uploaded after another transcript had been processed: the run
\* of the other transcript left four results behind, the session holds none
\* and processing of b.pdf is about to start.
C26_Witness ==
    /\ pc = "text"
    /\ pdf_file = "b.pdf"
    /\ lines = FileText("b.pdf")
    /\ session_state.last_pdf_name = "b.pdf"
    /\ ~session_state.processing_complete
    /\ session_state.validation_results = << >>
    /\ Len(all_results) = 4

\* C29: whenever processing_complete is true, the stored results were
\* computed with the catalog that is selected now.
C29_ResultsMatchCatalog ==
    session_state.processing_complete =>
        validator = session_state.selected_course_data

\* The steps of one processing run, in their order: a pair of positions that
\* a step may lead from and to.
PipelineOrder ==
    {<<"display", "text">>, <<"stopped", "text">>, <<"stopped", "display">>,
     <<"text", "stopped">>, <<"text", "markers">>, <<"markers", "lines">>,
     <<"lines", "markers">>, <<"markers", "stopped">>, <<"markers", "extracted">>,
     <<"extracted", "credit">>, <<"credit", "courses">>, <<"courses", "credit">>,
     <<"courses", "propagate">>, <<"propagate", "done">>, <<"done", "display">>}

\* The number of course records of a semester list.
RECURSIVE CourseCount(_)
CourseCount(sems) ==
    IF sems = << >> THEN 0 ELSE Len(Head(sems).courses) + CourseCount(Tail(sems))

\* C25: the steps of a run happen in the order extraction, history build,
\* per-semester validation, propagation, storing.  The history is built from
\* the semester list extraction returned and only then; a result is appended
\* only after that, against that history; propagation runs once, when every
\* course of the list has its result; and the session receives the results
\* only after propagation, as propagation left them.
C25_PipelineOrder ==
    [][/\ pc' # pc => <<pc, pc'>> \in PipelineOrder
       /\ semesters' # semesters => pc \in {"text", "markers"}
       /\ history' # history =>
            /\ pc = "extracted"
            /\ history' = build_passed_courses_history(semesters)
            /\ all_results' = << >>
       /\ Len(all_results') > Len(all_results) =>
            /\ pc \in {"credit", "courses"}
            /\ history = build_passed_courses_history(semesters)
       /\ (pc' = "propagate" \/ pc = "propagate") =>
            Cardinality(CourseResults) + (IF pc = "courses" THEN 1 ELSE 0)
                = CourseCount(semesters)
       /\ pc = "propagate" =>
            /\ all_results' = propagate_invalidation(semesters, all_results)
            /\ session_state' = session_state
       /\ (pc \notin {"display", "stopped"} /\ session_state' # session_state) =>
            /\ pc = "done"
            /\ propagated
            /\ session_state'.validation_results = all_results
            /\ session_state'.semesters = semesters
            /\ session_state'.processing_complete]_vars

\* A run of two semesters is complete: four results, among them a credit
\* warning, went through propagation and are in the session.
C25_Witness ==
    /\ pc = "display"
    /\ session_state.processing_complete
    /\ propagated
    /\ Len(semesters) = 2
    /\ DOMAIN history = 0 .. 1
    /\ Len(session_state.validation_results) = 4
    /\ session_state.validation_results = all_results

\* C23: process_pdf on an empty text returns, and what it returns is an empty
\* student_info and an empty semester list, whatever the call before it had
\* returned.
C23_EmptyInputReturnsEmpty ==
    [][/\ (pc = "text" /\ lines = << >>) =>
            /\ pc' = "stopped"
            /\ student_info' = << >>
            /\ semesters' = << >>
       /\ (Returned' /\ lines' = << >>) =>
            /\ student_info' = << >>
            /\ semesters' = << >>]_vars

\* An empty text was processed after a text that had yielded semesters, which
\* are in the model.
C23_Witness ==
    /\ pc = "stopped"
    /\ lines = << >>
    /\ student_info = << >>
    /\ semesters = << >>
    /\ model.semesters # << >>
    /\ model.student_info # << >>

\* A step of process_corrected_text that ends it.
ProcessingEnds == pc \in {"extracted", "stopped"} /\ pc' = "edit"

\* C27: when extraction succeeded, replace mode sets the model's student_info
\* and semester list to the extracted ones and the current semester index to
\* 0; append mode leaves student_info and the existing semesters as they are
\* and in their order, adds the extracted semesters after them, and sets the
\* index to the last one.  No step takes a semester out of the list: the list
\* is either replaced by the extracted one or extended.
C27_ReplaceVersusAppend ==
    [][/\ (ProcessingEnds /\ student_info # << >> /\ semesters # << >>) =>
            IF ~append_mode
            THEN /\ model'.student_info = student_info
                 /\ model'.semesters = semesters
                 /\ model'.current_semester_index = 0
            ELSE /\ model'.student_info = model.student_info
                 /\ Len(model'.semesters) = Len(model.semesters) + Len(semesters)
                 /\ SubSeq(model'.semesters, 1, Len(model.semesters)) = model.semesters
                 /\ SubSeq(model'.semesters, Len(model.semesters) + 1,
                           Len(model'.semesters)) = semesters
                 /\ model'.current_semester_index = Len(model'.semesters) - 1
       /\ model'.semesters # model.semesters =>
            \/ (~append_mode /\ model'.semesters = semesters)
            \/ /\ Len(model'.semesters) > Len(model.semesters)
               /\ SubSeq(model'.semesters, 1, Len(model.semesters)) = model.semesters]_vars

\* Two semesters of student S2 were appended to the one semester of student
\* S1: the model has three semesters, the first is the old one, the student
\* is still S1, and the index is 2.
C27_Witness ==
    /\ pc = "edit"
    /\ append_mode
    /\ Len(model.semesters) = 3
    /\ Len(semesters) = 2
    /\ student_info.id = "S2"
    /\ model.student_info.id = "S1"
    /\ Len(model.semesters[1].courses) = 1
    /\ model.semesters[1].courses[1].grade = "A"
    /\ SubSeq(model.semesters, 2, 3) = semesters
    /\ model.current_semester_index = 2

\* C30: when process_pdf returned no student info or no semesters,
\* process_corrected_text ends with the model as it was (student_info,
\* semesters, current_semester_index and the changed flag), in replace and in
\* append mode.
C30_FailureLeavesModel ==
    [][(ProcessingEnds /\ (student_info = << >> \/ semesters = << >>)) =>
          model' = model]_vars

\* After a failed extraction in replace mode the model still holds the two
\* semesters of the extraction before, is marked as changed, and its index is
\* the one that extraction set.
C30_Witness ==
    /\ pc = "edit"
    /\ ~append_mode
    /\ reruns >= 2
    /\ semesters = << >>
    /\ lines # << >>
    /\ Len(model.semesters) = 2
    /\ model.changed
    /\ model.student_info.id = "S2"

====
